---- MODULE Spec2Model ----
(***************************************************************************)
(* A model of lintel/core/video_decode.c: the frame source receive_frame,  *)
(* the pixel packer copy_next_frame, the padding loop loop_to_buffer_end,  *)
(* the two sampling entry points decode_video_to_out_buffer and            *)
(* decode_video_from_frame_nums, and the seek planner                      *)
(* seek_to_closest_keypoint with skip_past_timestamp.                      *)
(*                                                                         *)
(* Frames are numbered 1..Len(pts) in decode order (frame id f is the      *)
(* source's 0-based frame number f - 1); id 0 is "no frame", the state of  *)
(* vid_ctx->frame after av_frame_alloc/av_frame_unref.  The FFmpeg library *)
(* is modelled by its documented send/receive protocol: a decoder that     *)
(* holds back `delay` frames, a demuxer that hands out the packets of pkts *)
(* in order, a seek that lands on some packet.  An assert() that fails     *)
(* ends the call in pc = "abort" with the line of the assertion.           *)
(***************************************************************************)
EXTENDS Integers, Sequences, FiniteSets, TLC

\* ------------------------------------------------------------------ bounds
MaxFrames == 4   \* longest stream, in frames
MaxReq == 3      \* largest num_requested_frames
MaxFaults == 1   \* decoder/demuxer failures injected per run
MaxSize == 3     \* largest in-memory input buffer, in bytes
MaxLiveFrames == 2  \* longest stream of the termination check
MaxLiveReq == 2     \* largest num_requested_frames of the termination check

\* Stand-in for INT64_MIN: below every PTS and timestamp of the model.
AV_NOPTS_VALUE == 0 - 1000000

VID_DECODE_SUCCESS == "SUCCESS"
VID_DECODE_EOF == "EOF"
VID_DECODE_FFMPEG_ERR == "FFMPEG_ERR"

AVSEEK_FLAG_BACKWARD == "AVSEEK_FLAG_BACKWARD"

VARIABLES
  \* -- struct video_stream_context and the library state behind it
  pts,            \* PTS of each frame of the stream, in decode order
  pkts,           \* the demuxer's packets: a frame id, or 0 for another stream's packet
  delay,          \* frames the decoder holds back before it outputs one
  nb_frames,      \* vid_ctx->nb_frames (container metadata)
  duration,       \* vid_ctx->duration
  time_base,      \* video_stream->time_base, <<num, den>>
  start_time,     \* video_stream->start_time
  rd,             \* packets already read from the demuxer
  dbuf,           \* frames buffered inside the decoder, oldest first
  draining,       \* the flush packet was accepted
  frame,          \* vid_ctx->frame: id of the frame last received, 0 if none
  \* -- the call in progress
  op,             \* which scenario runs
  pc,             \* position in the code
  num_requested_frames,
  frame_numbers,
  should_seek,
  use_frame,
  should_random_seek,
  width,
  height,
  dest,           \* the output buffer, one entry per byte
  copied_bytes,
  frame_number,   \* loop counter of decode_video_to_out_buffer / parameter of loop_to_buffer_end
  out_frame_index,
  current_frame_index,
  prev_pts,
  bytes_to_copy,     \* locals of loop_to_buffer_end
  remaining_frames,
  pad_copied_bytes,
  timestamp,      \* result of seek_to_closest_keypoint / argument of skip_past_timestamp
  \* -- observation of the run
  wcount,         \* how often each byte of dest was written
  packed,         \* the frames given to copy_next_frame, in order
  landed,         \* the frame the last av_seek_frame landed in front of, 0 if none
  calls,          \* receive_frame calls made by the function running
  delivered,      \* frames receive_frame returned with SUCCESS, in order
  lastStatus,     \* status of the last receive_frame call
  seeks,          \* av_seek_frame calls made so far
  seekTs,         \* timestamp of the last av_seek_frame
  seekFlag,       \* flags of the last av_seek_frame, "none" before
  pads,           \* loop_to_buffer_end invocations
  nfaults,        \* library failures injected so far
  abortLine,      \* line of the failed assertion, 0 if none
  planIndex,      \* the target frame index of seek_to_closest_keypoint, -1 if none
  drawn,          \* rand() % (valid_seek_frame_limit + 1) of line 472, -1 if not drawn
  seek_distance,  \* *seek_distance_out as <<numerator, denominator>>, <<>> if unwritten
  ub,             \* undefined behaviour met: "oob" write, "overlap" memcpy
  \* -- the in-memory I/O adapter
  input_buf,      \* struct buffer_data: total_size_bytes, offset_bytes
  memcall,        \* the last read_memory / seek_memory call and what it returned
  \* -- what a sampling call owns: how often it was acquired and released
  sws_context,    \* the scaling context of sws_getContext
  frame_rgb       \* the RGB frame of allocate_rgb_image

streamVars == <<pts, pkts, delay, nb_frames, duration, time_base, start_time>>
decVars == <<rd, dbuf, draining, frame>>
argVars == <<op, num_requested_frames, frame_numbers, should_seek, use_frame,
             should_random_seek, width, height>>
bufVars == <<dest, wcount, packed, copied_bytes, ub>>
loopVars == <<frame_number, out_frame_index>>
idxVars == <<current_frame_index, prev_pts>>
padVars == <<bytes_to_copy, remaining_frames, pad_copied_bytes>>
planVars == <<planIndex, seek_distance, drawn>>
seekVars == <<seeks, seekTs, landed, seekFlag>>
obsDecVars == <<calls, delivered, lastStatus, nfaults>>
memVars == <<input_buf, memcall>>
resVars == <<sws_context, frame_rgb>>
vars == <<pts, pkts, delay, nb_frames, duration, time_base, start_time,
          rd, dbuf, draining, frame,
          op, pc, num_requested_frames, frame_numbers, should_seek, use_frame,
          should_random_seek, width, height, dest, copied_bytes, frame_number,
          out_frame_index, current_frame_index, prev_pts,
          bytes_to_copy, remaining_frames, pad_copied_bytes, timestamp,
          wcount, packed, landed, calls, delivered, lastStatus, seeks, seekTs,
          pads, nfaults, abortLine, planIndex, seek_distance, ub,
          input_buf, memcall, drawn, seekFlag, sws_context, frame_rgb>>

\* ----------------------------------------------------------------- helpers
Max(a, b) == IF a > b THEN a ELSE b
Min(a, b) == IF a < b THEN a ELSE b

\* frame->pts of the frame held in vid_ctx->frame
PtsOf(f) == IF f = 0 THEN AV_NOPTS_VALUE ELSE pts[f]

\* Number of packets in front of the packet that carries frame f
\* (f = Len(pts) + 1: behind the last packet).
PacketsBefore(f) ==
  IF f > Len(pts) THEN Len(pkts)
  ELSE (CHOOSE i \in 1..Len(pkts) : pkts[i] = f) - 1

\* --------------------------------------------------------- receive_frame
\* The library failures a receive_frame call can meet, named by the call
\* that fails: line 42, 53, 55, 62, 88, 91.
Faults == {"none", "recv1", "read", "send", "recv2", "fsend", "frecv"}

\* avcodec_receive_frame: a frame once more than `delay` are buffered, every
\* buffered frame when draining, AVERROR_EOF when drained, else EAGAIN.
AvcodecReceiveFrame(buf, drn) ==
  IF drn
  THEN IF buf = <<>> THEN [st |-> "AVERROR_EOF", buf |-> buf, f |-> 0]
       ELSE [st |-> "OK", buf |-> Tail(buf), f |-> Head(buf)]
  ELSE IF Len(buf) > delay THEN [st |-> "OK", buf |-> Tail(buf), f |-> Head(buf)]
       ELSE [st |-> "EAGAIN", buf |-> buf, f |-> 0]

\* The while loop of lines 51-73 from read position r with decoder buffer
\* buf: "NOFRAME" when av_read_frame stops returning 0 before a frame came.
RECURSIVE ReadLoop(_, _, _)
ReadLoop(r, buf, fault) ==
  IF r >= Len(pkts)
  THEN [st |-> "NOFRAME", rd |-> r, buf |-> buf, f |-> 0, hit |-> FALSE]
  ELSE IF fault = "read"
  THEN [st |-> "NOFRAME", rd |-> r, buf |-> buf, f |-> 0, hit |-> TRUE]
  ELSE IF pkts[r + 1] = 0
  THEN ReadLoop(r + 1, buf, fault)
  ELSE IF fault = "send"
  THEN [st |-> VID_DECODE_FFMPEG_ERR, rd |-> r + 1, buf |-> buf, f |-> 0, hit |-> TRUE]
  ELSE IF fault = "recv2"
  THEN [st |-> VID_DECODE_FFMPEG_ERR, rd |-> r + 1,
        buf |-> Append(buf, pkts[r + 1]), f |-> 0, hit |-> TRUE]
  ELSE LET got == AvcodecReceiveFrame(Append(buf, pkts[r + 1]), FALSE)
       IN IF got.st = "OK"
          THEN [st |-> VID_DECODE_SUCCESS, rd |-> r + 1, buf |-> got.buf,
                f |-> got.f, hit |-> FALSE]
          ELSE ReadLoop(r + 1, got.buf, fault)

\* The flush pass of lines 84-102 after the loop ended without a frame.
FlushPass(lp, fault) ==
  IF fault = "fsend"
  THEN [status |-> VID_DECODE_EOF, rd |-> lp.rd, dbuf |-> lp.buf,
        draining |-> draining, frame |-> 0, hit |-> TRUE]
  ELSE IF fault = "frecv"
  THEN [status |-> VID_DECODE_EOF, rd |-> lp.rd, dbuf |-> lp.buf,
        draining |-> TRUE, frame |-> 0, hit |-> TRUE]
  ELSE LET got == AvcodecReceiveFrame(lp.buf, TRUE)
       IN [status |-> IF got.st = "OK" THEN VID_DECODE_SUCCESS ELSE VID_DECODE_EOF,
           rd |-> lp.rd, dbuf |-> got.buf, draining |-> TRUE, frame |-> got.f,
           hit |-> lp.hit]

\* receive_frame: the status returned and the state it leaves.  hit tells
\* whether the failure named by fault was met on the way.
ReceiveFrame(fault) ==
  LET first == AvcodecReceiveFrame(dbuf, draining)
  IN IF fault = "recv1"
     THEN [status |-> VID_DECODE_FFMPEG_ERR, rd |-> rd, dbuf |-> dbuf,
           draining |-> draining, frame |-> 0, hit |-> TRUE]
     ELSE IF first.st = "OK"
     THEN [status |-> VID_DECODE_SUCCESS, rd |-> rd, dbuf |-> first.buf,
           draining |-> draining, frame |-> first.f, hit |-> FALSE]
     ELSE IF first.st = "AVERROR_EOF"
     THEN [status |-> VID_DECODE_EOF, rd |-> rd, dbuf |-> dbuf,
           draining |-> draining, frame |-> 0, hit |-> FALSE]
     ELSE LET lp == ReadLoop(rd, dbuf, fault)
          IN IF lp.st = "NOFRAME"
             THEN FlushPass(lp, fault)
             ELSE [status |-> lp.st, rd |-> lp.rd, dbuf |-> lp.buf,
                   draining |-> draining, frame |-> lp.f, hit |-> lp.hit]

\* The failures that may be injected into the next call: none, or one that
\* the call really meets while the budget lasts.
FaultOK(fault, r) ==
  IF fault = "none" THEN TRUE ELSE r.hit /\ nfaults < MaxFaults

\* The state left by a receive_frame call that returned r.
Received(r) ==
  /\ rd' = r.rd
  /\ dbuf' = r.dbuf
  /\ draining' = r.draining
  /\ frame' = r.frame
  /\ calls' = calls + 1
  /\ lastStatus' = r.status
  /\ delivered' = IF r.status = VID_DECODE_SUCCESS THEN Append(delivered, r.frame)
                  ELSE delivered
  /\ nfaults' = IF r.hit THEN nfaults + 1 ELSE nfaults

\* ------------------------------------------------------------ the buffer
BytesPerRow == 3 * width
BytesPerFrame == BytesPerRow * height

\* Byte c of row r of the RGB24 image sws_scale makes of frame f.
RgbByte(f, r, c) == <<f, r, c>>
Unwritten == <<0, 0, 0>>

\* A copy that never advances next_row: every row is the image's row 0.
CopyNextFrame_SameRow(d, f, cb) ==
  [i \in DOMAIN d |->
     IF i - 1 >= cb /\ i - 1 < cb + BytesPerRow * height
     THEN <<f, 0, (i - 1 - cb) % BytesPerRow>>
     ELSE d[i]]

\* copy_next_frame: height rows of bytes_per_row bytes, row r read at
\* r * linesize in frame_rgb and written at cb + r * bytes_per_row.
CopyNextFrame(d, f, cb) ==
  [i \in DOMAIN d |->
     IF i - 1 >= cb /\ i - 1 < cb + BytesPerRow * height
     THEN RgbByte(f, (i - 1 - cb) \div BytesPerRow, (i - 1 - cb) % BytesPerRow)
     ELSE d[i]]

\* memcpy(d + to, d + from, len) on non-overlapping ranges inside d.
Memcpy(d, to, from, len) ==
  [i \in DOMAIN d |->
     IF i - 1 >= to /\ i - 1 < to + len /\ (i - to + from) \in DOMAIN d
     THEN d[i - to + from] ELSE d[i]]

\* The write counts after len bytes were written at offset to.
Written(w, to, len) ==
  [i \in DOMAIN w |-> IF i - 1 >= to /\ i - 1 < to + len THEN w[i] + 1 ELSE w[i]]

\* Undefined behaviour of a write of len bytes at to, read from `from`
\* (from < 0: the source is not in dest).
UbOf(to, from, len) ==
  (IF len > 0 /\ to + len > Len(dest) THEN {"oob"} ELSE {})
  \cup (IF from >= 0 /\ len > 0 /\ from < to + len /\ to < from + len
        THEN {"overlap"} ELSE {})

\* One call of copy_next_frame on the frame f at copied_bytes.
Pack(f) ==
  /\ dest' = CopyNextFrame(dest, f, copied_bytes)
  /\ wcount' = Written(wcount, copied_bytes, BytesPerFrame)
  /\ packed' = Append(packed, f)
  /\ copied_bytes' = copied_bytes + BytesPerFrame
  /\ ub' = ub \cup UbOf(copied_bytes, 0 - 1, BytesPerFrame)

Abort(line) ==
  /\ pc' = "abort"
  /\ abortLine' = line

\* ---------------------------------------------------- loop_to_buffer_end
\* A loop_to_buffer_end without its frame_number == 0 return.
PadCall_NoZeroCheck(k, cb) ==
  /\ pads' = pads + 1
  /\ frame_number' = k
  /\ pc' = "pad"
  /\ bytes_to_copy' = cb
  /\ remaining_frames' = num_requested_frames - k
  /\ pad_copied_bytes' = cb

\* The call loop_to_buffer_end(dest, cb, k, bytes_per_frame, n) up to the
\* head of its while loop (lines 203-209).
PadCall(k, cb) ==
  /\ pads' = pads + 1
  /\ frame_number' = k
  /\ IF k = 0
     THEN pc' = "free" /\ UNCHANGED padVars
     ELSE /\ pc' = "pad"
          /\ bytes_to_copy' = cb
          /\ remaining_frames' = num_requested_frames - k
          /\ pad_copied_bytes' = cb

\* A padding loop that never shortens its last copy.
PadBytes_Whole(rem, k, btc) == btc

\* bytes_to_copy of one iteration (lines 211-212).
PadBytes(rem, k, btc) == IF rem < k THEN rem * BytesPerFrame ELSE btc

\* A padding copy that replays from the last packed frame.
PadSource_LastFrame(cb) == cb - BytesPerFrame

\* The source offset of the padding memcpy (line 214): the start of dest.
PadSource(cb) == 0

\* One iteration of the while loop (lines 210-218).
PadStep ==
  /\ pc = "pad"
  /\ remaining_frames > 0
  /\ LET btc == PadBytes(remaining_frames, frame_number, bytes_to_copy)
         src == PadSource(pad_copied_bytes)
     IN /\ dest' = Memcpy(dest, pad_copied_bytes, src, btc)
        /\ wcount' = Written(wcount, pad_copied_bytes, btc)
        /\ ub' = ub \cup UbOf(pad_copied_bytes, src, btc)
        /\ bytes_to_copy' = btc
        /\ remaining_frames' = remaining_frames - frame_number
        /\ pad_copied_bytes' = pad_copied_bytes + btc
  /\ UNCHANGED <<resVars, memVars, streamVars, decVars, argVars, pc, packed, copied_bytes, loopVars,
                 idxVars, planVars, seekVars, obsDecVars, timestamp, pads, abortLine>>

\* The loop ends and loop_to_buffer_end returns to its caller, which goes
\* on to release its frame (line 255 break, lines 660/684/721 goto).
PadReturn ==
  /\ pc = "pad"
  /\ remaining_frames <= 0
  /\ pc' = "free"
  /\ UNCHANGED <<resVars, memVars, streamVars, decVars, argVars, bufVars, loopVars, idxVars, padVars,
                 planVars, seekVars, obsDecVars, timestamp, pads, abortLine>>

\* A resource nobody owns yet.
NoResource == [acquired |-> 0, released |-> 0]

\* sws_getContext / allocate_rgb_image (lines 226-240 and 537-550): the
\* call owns the resource.  Both are asserted to succeed.
Acquire(r) == [r EXCEPT !.acquired = @ + 1]

\* A return that forgets the resource.
Release_Leak(r) == r

\* av_freep + av_frame_free / sws_freeContext (lines 268-271, 750-752).
Release(r) == [r EXCEPT !.released = @ + 1]

\* The exit of both entry points (lines 268-271, 749-752).
FreeFrame ==
  /\ pc = "free"
  /\ pc' = "done"
  /\ frame_rgb' = Release(frame_rgb)
  /\ sws_context' = Release(sws_context)
  /\ UNCHANGED <<memVars, streamVars, decVars, argVars, bufVars, loopVars, idxVars, padVars,
                 planVars, seekVars, obsDecVars, timestamp, pads, abortLine>>

\* ------------------------------------------- decode_video_to_out_buffer
\* Lines 226-244: the scaling context and the RGB frame, the counters.
ToOutEnter ==
  /\ pc = "to_out_entry"
  /\ pc' = "to_out_for"
  /\ copied_bytes' = 0
  /\ frame_number' = 0
  /\ calls' = 0
  /\ delivered' = <<>>
  /\ sws_context' = Acquire(sws_context)
  /\ frame_rgb' = Acquire(frame_rgb)
  /\ UNCHANGED <<memVars, streamVars, decVars, argVars, dest, wcount, packed, ub,
                 out_frame_index, idxVars, padVars, planVars, seekVars, lastStatus,
                 nfaults, timestamp, pads, abortLine>>

\* A for loop that runs once too often.
ToOutLoopCond_Inclusive(i, n) == i <= n

\* The condition of the for loop (line 246).
ToOutLoopCond(i, n) == i < n

\* One iteration of the for loop (lines 245-266).
ToOutIter ==
  /\ pc = "to_out_for"
  /\ ToOutLoopCond(frame_number, num_requested_frames)
  /\ \E fault \in Faults :
       LET r == ReceiveFrame(fault)
       IN /\ FaultOK(fault, r)
          /\ Received(r)
          /\ CASE r.status = VID_DECODE_EOF ->
                    /\ PadCall(frame_number, copied_bytes)
                    /\ UNCHANGED <<bufVars, abortLine>>
               [] r.status = VID_DECODE_FFMPEG_ERR ->
                    /\ Abort(257)
                    /\ UNCHANGED <<bufVars, frame_number, pads, padVars>>
               [] OTHER ->
                    /\ Pack(r.frame)
                    /\ frame_number' = frame_number + 1
                    /\ UNCHANGED <<pc, pads, padVars, abortLine>>
  /\ UNCHANGED <<resVars, memVars, streamVars, argVars, out_frame_index, idxVars, planVars, seekVars,
                 timestamp>>

\* The for loop ends with all frames packed.
ToOutExit ==
  /\ pc = "to_out_for"
  /\ ~ToOutLoopCond(frame_number, num_requested_frames)
  /\ pc' = "free"
  /\ UNCHANGED <<resVars, memVars, streamVars, decVars, argVars, bufVars, loopVars, idxVars, padVars,
                 planVars, seekVars, obsDecVars, timestamp, pads, abortLine>>

\* ----------------------------------------- decode_video_from_frame_nums
\* time_unit of line 566 and avg_frame_duration of lines 573-574.
TimeUnit == time_base[2] \div time_base[1]
AvgFrameDuration == duration \div nb_frames

\* The seek timestamp of lines 577-582.
SeekTimestamp(f0, uf, avg, tu) == IF uf THEN f0 * avg ELSE f0 * tu

\* An index taken from the PTS without the division by time_unit.
ReconstructIndex_Unscaled(p, f0, uf, avg, tu) ==
  IF uf THEN Min(p \div avg, f0) ELSE p

\* An index reconstructed one too high.
ReconstructIndex_PlusOne(p, f0, uf, avg, tu) ==
  IF uf THEN Min((p \div avg) + 1, f0) ELSE (p \div tu) + 1

\* The frame index reconstructed from the PTS p of the first frame after
\* the seek (lines 609-617).
ReconstructIndex(p, f0, uf, avg, tu) ==
  IF uf THEN Min(p \div avg, f0) ELSE p \div tu

\* A filter that lets a repeated PTS advance the index.
PtsAdvances_OnEqual(p, prev) == p >= prev

\* The duplicate-PTS filter of lines 695 and 732.
PtsAdvances(p, prev) == p > prev

\* A scan that runs one index too far.
ScanContinues_OneMore(uf, cfi, desired, p, tu) ==
  IF uf THEN cfi <= desired + 1 ELSE p <= desired * tu

\* The condition of the scanning while loop (lines 663 and 703).
ScanContinues(uf, cfi, desired, p, tu) ==
  IF uf THEN cfi <= desired ELSE p <= desired * tu

\* The precondition asserted at lines 650-651.
TargetAsserted(desired, cfi) == desired >= cfi /\ desired >= 0

\* The stream-truncation test of line 654.
BeyondStream(desired, nb) == desired > nb

\* The early return of lines 533-534.
EmptyRequest(n) == n <= 0

\* Lines 533-558: the early return, the two allocations, the locals.
FnEnter ==
  /\ pc = "fn_entry"
  /\ pc' = IF EmptyRequest(num_requested_frames) THEN "done"
           ELSE IF should_seek THEN "fn_seek" ELSE "fn_for"
  /\ copied_bytes' = 0
  /\ current_frame_index' = 0
  /\ out_frame_index' = 0
  /\ prev_pts' = 0
  /\ calls' = 0
  /\ delivered' = <<>>
  /\ IF EmptyRequest(num_requested_frames)
     THEN UNCHANGED resVars
     ELSE /\ sws_context' = Acquire(sws_context)
          /\ frame_rgb' = Acquire(frame_rgb)
  /\ UNCHANGED <<memVars, streamVars, decVars, argVars, dest, wcount, packed, ub,
                 frame_number, padVars, planVars, seekVars, lastStatus, nfaults,
                 timestamp, pads, abortLine>>

\* Lines 573-587: av_seek_frame to the first target's timestamp.  The seek
\* fails (land = 0) or moves the demuxer in front of the packet of some
\* frame (land = Len(pts) + 1: behind the last); it does not touch the
\* decoder's buffers.
FnSeek ==
  /\ pc = "fn_seek"
  /\ \E land \in 0..(Len(pts) + 1) :
       /\ seeks' = seeks + 1
       /\ seekTs' = SeekTimestamp(frame_numbers[1], use_frame, AvgFrameDuration, TimeUnit)
       /\ seekFlag' = AVSEEK_FLAG_BACKWARD
       /\ landed' = land
       /\ IF land = 0
          THEN Abort(587) /\ rd' = rd
          ELSE /\ rd' = PacketsBefore(land)
               /\ pc' = "fn_first"
               /\ abortLine' = abortLine
  /\ UNCHANGED <<resVars, memVars, streamVars, dbuf, draining, frame, argVars, bufVars, loopVars,
                 idxVars, padVars, planVars, obsDecVars, timestamp, pads>>

\* Lines 604-617: the one frame decoded after the seek and its index.
FnFirst ==
  /\ pc = "fn_first"
  /\ \E fault \in Faults :
       LET r == ReceiveFrame(fault)
       IN /\ FaultOK(fault, r)
          /\ Received(r)
          /\ CASE r.status = VID_DECODE_EOF ->
                    /\ pc' = "free"
                    /\ UNCHANGED <<current_frame_index, abortLine>>
               [] r.status = VID_DECODE_FFMPEG_ERR ->
                    /\ Abort(607)
                    /\ UNCHANGED current_frame_index
               [] OTHER ->
                    /\ pc' = "fn_recon"
                    /\ current_frame_index' =
                         ReconstructIndex(PtsOf(r.frame), frame_numbers[1], use_frame,
                                          AvgFrameDuration, TimeUnit)
                    /\ abortLine' = abortLine
  /\ UNCHANGED <<resVars, memVars, streamVars, argVars, bufVars, loopVars, prev_pts, padVars,
                 planVars, seekVars, timestamp, pads>>

\* Lines 623-643: the assertion, the frame packed when the seek hit the
\* first target, the index and prev_pts moved past the frame.
FnReconcile ==
  /\ pc = "fn_recon"
  /\ IF ~(current_frame_index <= frame_numbers[1])
     THEN /\ Abort(623)
          /\ UNCHANGED <<bufVars, out_frame_index, idxVars>>
     ELSE /\ IF current_frame_index = frame_numbers[1]
             THEN Pack(frame) /\ out_frame_index' = out_frame_index + 1
             ELSE UNCHANGED <<bufVars, out_frame_index>>
          /\ current_frame_index' = current_frame_index + 1
          /\ prev_pts' = PtsOf(frame)
          /\ pc' = "fn_for"
          /\ abortLine' = abortLine
  /\ UNCHANGED <<resVars, memVars, streamVars, decVars, argVars, frame_number, padVars, planVars,
                 seekVars, obsDecVars, timestamp, pads>>

\* Lines 646-661: the head of the for loop for the next target.
FnFor ==
  /\ pc = "fn_for"
  /\ IF ~(out_frame_index < num_requested_frames)
     THEN pc' = "free" /\ UNCHANGED <<abortLine, pads, frame_number, padVars>>
     ELSE LET desired_frame_num == frame_numbers[out_frame_index + 1]
          IN IF ~TargetAsserted(desired_frame_num, current_frame_index)
             THEN Abort(650) /\ UNCHANGED <<pads, frame_number, padVars>>
             ELSE IF BeyondStream(desired_frame_num, nb_frames)
             THEN PadCall(out_frame_index, copied_bytes) /\ abortLine' = abortLine
             ELSE pc' = "fn_scan" /\ UNCHANGED <<abortLine, pads, frame_number, padVars>>
  /\ UNCHANGED <<resVars, memVars, streamVars, decVars, argVars, bufVars, out_frame_index, idxVars,
                 planVars, seekVars, obsDecVars, timestamp>>

\* One iteration of the scanning while loop (lines 663-700, 703-737).
FnScan ==
  /\ pc = "fn_scan"
  /\ ScanContinues(use_frame, current_frame_index, frame_numbers[out_frame_index + 1],
                   PtsOf(frame), TimeUnit)
  /\ \E fault \in Faults :
       LET r == ReceiveFrame(fault)
       IN /\ FaultOK(fault, r)
          /\ Received(r)
          /\ CASE r.status = VID_DECODE_EOF ->
                    /\ PadCall(out_frame_index, copied_bytes)
                    /\ UNCHANGED <<idxVars, abortLine>>
               [] r.status = VID_DECODE_FFMPEG_ERR ->
                    /\ Abort(IF use_frame THEN 686 ELSE 723)
                    /\ UNCHANGED <<idxVars, pads, frame_number, padVars>>
               [] OTHER ->
                    /\ IF PtsAdvances(PtsOf(r.frame), prev_pts)
                       THEN /\ current_frame_index' =
                                 IF use_frame THEN current_frame_index + 1
                                 ELSE current_frame_index
                            /\ prev_pts' = PtsOf(r.frame)
                       ELSE UNCHANGED idxVars
                    /\ UNCHANGED <<pc, abortLine, pads, frame_number, padVars>>
  /\ UNCHANGED <<resVars, memVars, streamVars, argVars, bufVars, out_frame_index, planVars, seekVars,
                 timestamp>>

\* Lines 740-747: the scan stopped, the current frame is packed.
FnPack ==
  /\ pc = "fn_scan"
  /\ ~ScanContinues(use_frame, current_frame_index, frame_numbers[out_frame_index + 1],
                    PtsOf(frame), TimeUnit)
  /\ Pack(frame)
  /\ out_frame_index' = out_frame_index + 1
  /\ pc' = "fn_for"
  /\ UNCHANGED <<resVars, memVars, streamVars, decVars, argVars, frame_number, idxVars, padVars,
                 planVars, seekVars, obsDecVars, timestamp, pads, abortLine>>

\* ------------------------------------------------ seek_to_closest_keypoint
\* A rescale that rounds up.
AvRescaleRnd_Up(a, b, c) == (a * b + c - 1) \div c

\* av_rescale_rnd(a, b, c, AV_ROUND_DOWN) on non-negative operands.
AvRescaleRnd(a, b, c) == (a * b) \div c

\* A limit that leaves a window when there is none.
ValidSeekFrameLimit_PlusOne(nb, n) == nb - n + 1

\* valid_seek_frame_limit of lines 460-461.
ValidSeekFrameLimit(nb, n) == nb - n

\* A planner that forgets to step back by one.
PlanIndex_NoStepBack(draw) == draw

\* The frame index kept from a non-zero draw (line 477).
PlanIndex(draw) == draw - 1

\* seek_to_closest_keypoint, whole (lines 445-504): draw is rand() modulo
\* valid_seek_frame_limit + 1, land the frame av_seek_frame lands in front
\* of (0: the seek fails).  Its caller passes the result on to
\* skip_past_timestamp.
Plan ==
  /\ pc = "plan"
  /\ LET limit == ValidSeekFrameLimit(nb_frames, num_requested_frames)
         start == IF start_time # AV_NOPTS_VALUE THEN start_time ELSE 0
     IN \E draw \in 0..Max(limit, 0), land \in 0..(Len(pts) + 1) :
          IF ~should_random_seek
          THEN /\ draw = 0 /\ land = 0
               /\ timestamp' = 0
               /\ pc' = "skip"
               /\ UNCHANGED <<rd, seekVars, planVars, abortLine>>
          ELSE IF limit <= 0
          THEN /\ draw = 0 /\ land = 0
               /\ timestamp' = AV_NOPTS_VALUE
               /\ pc' = "skip"
               /\ UNCHANGED <<rd, seekVars, planVars, abortLine>>
          ELSE IF draw = 0
          THEN /\ land = 0
               /\ drawn' = draw
               /\ timestamp' = AV_NOPTS_VALUE
               /\ pc' = "skip"
               /\ UNCHANGED <<rd, seekVars, planIndex, seek_distance, abortLine>>
          ELSE LET ts == AvRescaleRnd(PlanIndex(draw), duration, nb_frames) + start
               IN /\ planIndex' = PlanIndex(draw)
                  /\ drawn' = draw
                  /\ seek_distance' = <<ts * time_base[1], time_base[2]>>
                  /\ seeks' = seeks + 1
                  /\ seekTs' = ts
                  /\ seekFlag' = AVSEEK_FLAG_BACKWARD
                  /\ landed' = land
                  /\ timestamp' = ts
                  /\ IF land = 0
                     THEN Abort(502) /\ rd' = rd
                     ELSE /\ rd' = PacketsBefore(land)
                          /\ pc' = "skip"
                          /\ abortLine' = abortLine
  /\ UNCHANGED <<resVars, memVars, streamVars, dbuf, draining, frame, argVars, bufVars, loopVars,
                 idxVars, padVars, obsDecVars, pads>>

\* --------------------------------------------------- skip_past_timestamp
\* Lines 510-511: nothing to skip.  On VID_DECODE_SUCCESS the caller goes on
\* to decode_video_to_out_buffer.
SkipEnter ==
  /\ pc = "skip"
  /\ pc' = IF timestamp = AV_NOPTS_VALUE THEN "to_out_entry" ELSE "skip_loop"
  /\ calls' = 0
  /\ delivered' = <<>>
  /\ UNCHANGED <<resVars, memVars, streamVars, decVars, argVars, bufVars, loopVars, idxVars, padVars,
                 planVars, seekVars, lastStatus, nfaults, timestamp, pads,
                 abortLine>>

\* A skip that also drops the frame at the timestamp.
SkipContinues_Inclusive(p, ts) == p <= ts

\* The test of the do-while loop (line 520).
SkipContinues(p, ts) == p < ts

\* One iteration of the do-while loop (lines 513-520).  A negative status
\* (end of stream, decode error) is returned to the caller, which gives up.
SkipStep ==
  /\ pc = "skip_loop"
  /\ \E fault \in Faults :
       LET r == ReceiveFrame(fault)
       IN /\ FaultOK(fault, r)
          /\ Received(r)
          /\ pc' = IF r.status # VID_DECODE_SUCCESS THEN "skip_failed"
                   ELSE IF SkipContinues(PtsOf(r.frame), timestamp) THEN "skip_loop"
                   ELSE "to_out_entry"
  /\ UNCHANGED <<resVars, memVars, streamVars, argVars, bufVars, loopVars, idxVars, padVars,
                 planVars, seekVars, timestamp, pads, abortLine>>

\* ------------------------------------------------- receive_frame, called
\* A caller that calls receive_frame again and again.
RecvCallCap == 2 * MaxFrames + 3

RecvCall ==
  /\ pc = "recv"
  /\ calls < RecvCallCap
  /\ \E fault \in Faults :
       LET r == ReceiveFrame(fault)
       IN FaultOK(fault, r) /\ Received(r)
  /\ UNCHANGED <<resVars, memVars, streamVars, argVars, pc, bufVars, loopVars, idxVars, padVars,
                 planVars, seekVars, timestamp, pads, abortLine>>

\* ------------------------------------------------ read_memory, seek_memory
Whences == {"SEEK_SET", "SEEK_CUR", "SEEK_END", "AVSEEK_SIZE", "other"}

\* Cursors the model follows: seeks that would leave this range are not taken.
MaxCursor == 2 * MaxSize

\* No adapter call made yet.
NoMemCall == [fn |-> "none", whence |-> "none", arg |-> 0, before |-> 0, ret |-> 0]

\* input_buf->offset_bytes after the switch of seek_memory (lines 296-311).
\* The offsets of the model fit in int32_t, where the cast of line 294 keeps
\* the value.
SeekOffset(cur, total, whence, offset) ==
  CASE whence = "SEEK_CUR" -> cur + offset
    [] whence = "SEEK_END" -> total - offset
    [] whence = "SEEK_SET" -> offset
    [] OTHER -> cur

\* The value seek_memory returns (lines 306-307, 313).
SeekReturn(cur, total, whence, offset) ==
  IF whence = "AVSEEK_SIZE" THEN total
  ELSE SeekOffset(cur, total, whence, offset)

\* seek_memory, whole (lines 291-314).
SeekMemory ==
  /\ pc = "mem"
  /\ \E whence \in Whences, offset \in (0 - MaxSize)..MaxSize :
       LET cur == input_buf.offset_bytes
           total == input_buf.total_size_bytes
           new == SeekOffset(cur, total, whence, offset)
       IN /\ new >= 0 - MaxCursor /\ new <= MaxCursor
          /\ input_buf' = [input_buf EXCEPT !.offset_bytes = new]
          /\ memcall' = [fn |-> "seek_memory", whence |-> whence, arg |-> offset,
                         before |-> cur,
                         ret |-> SeekReturn(cur, total, whence, offset)]
  /\ UNCHANGED <<resVars, streamVars, decVars, argVars, pc, bufVars, loopVars, idxVars,
                 padVars, planVars, seekVars, obsDecVars, timestamp, pads,
                 abortLine>>

\* buf_size_bytes after the clamp of lines 277-280.
ReadCount(cur, total, buf_size_bytes) ==
  IF total - cur < buf_size_bytes THEN total - cur ELSE buf_size_bytes

\* read_memory, whole (lines 274-289).  A memcpy with a negative length, or
\* from outside the buffer, is undefined: the call goes on or the process
\* dies.
ReadMemory ==
  /\ pc = "mem"
  /\ \E buf_size_bytes \in 0..MaxSize, dies \in BOOLEAN :
       LET cur == input_buf.offset_bytes
           total == input_buf.total_size_bytes
           c == ReadCount(cur, total, buf_size_bytes)
           undefined == c < 0 \/ (c > 0 /\ cur < 0)
       IN /\ dies => undefined
          /\ pc' = IF dies THEN "mem_crash" ELSE "mem"
          /\ input_buf' = [input_buf EXCEPT !.offset_bytes = cur + c]
          /\ memcall' = [fn |-> "read_memory", whence |-> "none",
                         arg |-> buf_size_bytes, before |-> cur, ret |-> c]
  /\ UNCHANGED <<resVars, streamVars, decVars, argVars, bufVars, loopVars, idxVars,
                 padVars, planVars, seekVars, obsDecVars, timestamp, pads,
                 abortLine>>

\* ------------------------------------------------------------------- Init
Lens == 0..MaxFrames
StartPts == {0, 1}
Steps == {1, 2}
Dims == {<<1, 2>>, <<2, 1>>}
TimeBases == {<<1, 1>>, <<2, 5>>}

\* The PTS of a stream of len frames from s in steps of d; with dup > 0 the
\* frame dup repeats the PTS of the frame before it.
MkPts(len, s, d, dup) ==
  [i \in 1..len |-> s + d * ((i - 1) - (IF dup > 0 /\ i >= dup THEN 1 ELSE 0))]

\* The packets of a stream of len frames, with a packet of another stream in
\* front of each video packet when aud.
MkPkts(len, aud) ==
  IF aud THEN [i \in 1..(2 * len) |-> IF i % 2 = 0 THEN i \div 2 ELSE 0]
  ELSE [i \in 1..len |-> i]

\* A stream just opened: nothing read, nothing decoded.
InitStreamDur(len, s, d, dup, aud, dl, nb, dur, tb, st) ==
  /\ pts = MkPts(len, s, d, dup)
  /\ pkts = MkPkts(len, aud)
  /\ delay = dl
  /\ nb_frames = nb
  /\ duration = dur
  /\ time_base = tb
  /\ start_time = st
  /\ rd = 0
  /\ dbuf = <<>>
  /\ draining = FALSE
  /\ frame = 0

\* A stream whose duration is nb frames of d ticks each.
InitStream(len, s, d, dup, aud, dl, nb, tb, st) ==
  InitStreamDur(len, s, d, dup, aud, dl, nb, nb * d, tb, st)

\* The arguments of the call and a caller's buffer of 3 * w * h * n bytes.
InitCall(o, p, n, fns, seek, uf, rnd, dim) ==
  /\ op = o
  /\ pc = p
  /\ num_requested_frames = n
  /\ frame_numbers = fns
  /\ should_seek = seek
  /\ use_frame = uf
  /\ should_random_seek = rnd
  /\ width = dim[1]
  /\ height = dim[2]
  /\ dest = [i \in 1..(3 * dim[1] * dim[2] * Max(n, 0)) |-> Unwritten]
  /\ wcount = [i \in 1..(3 * dim[1] * dim[2] * Max(n, 0)) |-> 0]
  /\ packed = <<>>
  /\ copied_bytes = 0
  /\ frame_number = 0
  /\ out_frame_index = 0
  /\ current_frame_index = 0
  /\ prev_pts = 0
  /\ bytes_to_copy = 0
  /\ remaining_frames = 0
  /\ pad_copied_bytes = 0
  /\ timestamp = AV_NOPTS_VALUE
  /\ sws_context = NoResource
  /\ frame_rgb = NoResource
  /\ calls = 0
  /\ delivered = <<>>
  /\ lastStatus = "none"
  /\ seeks = 0
  /\ seekTs = AV_NOPTS_VALUE
  /\ seekFlag = "none"
  /\ landed = 0
  /\ pads = 0
  /\ nfaults = 0
  /\ abortLine = 0
  /\ planIndex = 0 - 1
  /\ drawn = 0 - 1
  /\ seek_distance = <<>>
  /\ ub = {}
  /\ memcall = NoMemCall

\* The scenarios that do not go through the in-memory adapter.
NoBuffer == [total_size_bytes |-> 0, offset_bytes |-> 0]

\* receive_frame called repeatedly on streams with and without packets of
\* other streams, decoders with a delay of 0 to 2 frames.
InitRecv ==
  \E len \in Lens, aud \in BOOLEAN, dl \in 0..2 :
    /\ InitStream(len, 0, 1, 0, aud, dl, len, <<1, 1>>, 0)
    /\ InitCall("recv", "recv", 0, <<>>, FALSE, TRUE, FALSE, <<1, 1>>)
    /\ input_buf = NoBuffer

\* decode_video_to_out_buffer on a fresh stream.
InitToOut ==
  \E len \in Lens, aud \in BOOLEAN, dl \in 0..1, n \in (0 - 1)..MaxReq, dim \in Dims :
    /\ InitStream(len, 0, 1, 0, aud, dl, len, <<1, 1>>, 0)
    /\ InitCall("to_out", "to_out_entry", n, <<>>, FALSE, TRUE, FALSE, dim)
    /\ input_buf = NoBuffer

\* seek_to_closest_keypoint, skip_past_timestamp, decode_video_to_out_buffer
\* in a row on a fresh stream of uniformly spaced frames.
InitLoadvid ==
  \E len \in 0..(MaxFrames + 2), s \in StartPts, d \in Steps, nb \in 0..(MaxFrames + 3),
     st \in {AV_NOPTS_VALUE, 0, 1}, rnd \in BOOLEAN, n \in 0..MaxReq,
     extra \in {0, 1} :
    /\ nb \in {len, len + 1}
    /\ st \in {AV_NOPTS_VALUE, s}
    /\ extra = 1 => (rnd /\ nb = len /\ st = s)
    /\ InitStreamDur(len, s, d, 0, FALSE, 0, nb, nb * d + extra, <<1, 1>>, st)
    /\ InitCall("loadvid", "plan", n, <<>>, FALSE, TRUE, rnd, <<1, 1>>)
    /\ input_buf = NoBuffer

\* PTS shapes <<s, d, dup>> of the streams given to the target sampler:
\* uniform from 0 or 1, a wider step, a repeated PTS.
Shapes == {<<0, 1, 0>>, <<1, 1, 0>>, <<0, 2, 0>>, <<0, 1, 2>>, <<1, 2, 3>>}

\* Target lists of length n: any first target, then steps of 0, 1 or 2; the
\* second target may also be one less than the first.
TargetLists(n) ==
  {fns \in [1..n -> (0 - 1)..MaxFrames] :
     \A i \in 2..n :
       (fns[i] - fns[i - 1]) \in (IF i = 2 THEN {0 - 1, 0, 1, 2} ELSE {0, 1, 2})}

\* decode_video_from_frame_nums on a fresh stream.
InitFn ==
  \E len \in Lens, sh \in Shapes, nb \in 1..MaxFrames,
     n \in (0 - 1)..MaxReq, seek \in BOOLEAN, uf \in BOOLEAN, tb \in TimeBases :
    /\ sh[3] <= len
    /\ nb \in {Max(1, len - 1), Max(1, len)}
    /\ uf => tb = <<1, 1>>
    /\ tb = <<2, 5>> => sh[3] = 0
    /\ \E fns \in TargetLists(Max(n, 0)) :
         /\ InitStream(len, sh[1], sh[2], sh[3], FALSE, 0, nb, tb, sh[1])
         /\ InitCall("frame_nums", "fn_entry", n, fns, seek, uf, FALSE, <<1, 2>>)
         /\ input_buf = NoBuffer

\* read_memory and seek_memory on a buffer just handed to the adapter.
InitMem ==
  \E total \in 0..MaxSize :
    /\ InitStream(0, 0, 1, 0, FALSE, 0, 0, <<1, 1>>, 0)
    /\ InitCall("mem", "mem", 0, <<>>, FALSE, TRUE, FALSE, <<1, 1>>)
    /\ input_buf = [total_size_bytes |-> total, offset_bytes |-> 0]

Init == InitRecv \/ InitToOut \/ InitLoadvid \/ InitFn \/ InitMem

Next ==
  \/ RecvCall
  \/ ToOutEnter \/ ToOutIter \/ ToOutExit
  \/ PadStep \/ PadReturn \/ FreeFrame
  \/ FnEnter \/ FnSeek \/ FnFirst \/ FnReconcile \/ FnFor \/ FnScan \/ FnPack
  \/ Plan \/ SkipEnter \/ SkipStep
  \/ SeekMemory \/ ReadMemory

Spec == Init /\ [][Next]_vars

\* ----------------------------------------------------------- observation
\* Output slot i (from 0) holds the RGB image of frame f, byte for byte.
SlotHolds(i, f) ==
  \A r \in 0..(height - 1), c \in 0..(3 * width - 1) :
    dest[i * 3 * width * height + r * 3 * width + c + 1] = <<f, r, c>>

RECURSIVE SumTo(_, _)
SumTo(w, i) == IF i = 0 THEN 0 ELSE w[i] + SumTo(w, i - 1)

\* Number of byte writes that went into dest.
BytesWritten == SumTo(wcount, Len(wcount))

\* Every byte of the caller's 3 * width * height * n bytes written exactly
\* once, and nothing written outside them.
Covered ==
  /\ Len(dest) = 3 * width * height * num_requested_frames
  /\ \A i \in DOMAIN wcount : wcount[i] = 1
  /\ BytesWritten = 3 * width * height * num_requested_frames
  /\ "oob" \notin ub

\* The stream's PTS start at 0 and strictly increase.
StrictFromZero ==
  /\ Len(pts) >= 1
  /\ pts[1] = 0
  /\ \A i \in 2..Len(pts) : pts[i] > pts[i - 1]

\* ------------------------------------------------------------------ claims

\* C1 as stated: every call with n >= 1 that returns normally wrote every
\* byte of the output buffer exactly once, 3 * width * height * n in all.
C1_FullCoverage_AsStated ==
  (pc = "done" /\ num_requested_frames >= 1) => Covered

\* C1 amended: every call with n >= 1 that returns normally after packing at
\* least one frame wrote every byte of the output buffer exactly once,
\* 3 * width * height * n bytes in all.
C1_FullCoverage ==
  (pc = "done" /\ num_requested_frames >= 1 /\ packed # <<>>) => Covered

\* C1 witness: the target sampler returned after two packed frames and a
\* padded third.
C1_Witness ==
  /\ pc = "done"
  /\ op = "frame_nums"
  /\ num_requested_frames = 3
  /\ Len(packed) = 2
  /\ pads = 1
  /\ Covered

\* C2: after padding with 1 <= k < n frames packed, slot k + j equals slot
\* j mod k for every 0 <= j < n - k, and slots 0..k-1 hold what was packed.
C2_PaddingCorrect ==
  (pc \in {"free", "done"} /\ pads = 1 /\ Len(packed) >= 1
     /\ Len(packed) < num_requested_frames) =>
    LET k == Len(packed)
    IN /\ \A i \in 0..(k - 1) : SlotHolds(i, packed[i + 1])
       /\ \A j \in 0..(num_requested_frames - k - 1) :
            SlotHolds(k + j, packed[(j % k) + 1])

\* C2 witness: one frame packed by the target sampler and replayed twice.
C2_Witness ==
  /\ pc = "done"
  /\ op = "frame_nums"
  /\ pads = 1
  /\ Len(packed) = 1
  /\ num_requested_frames = 3
  /\ SlotHolds(2, packed[1])

\* The targets are non-negative and strictly increase.
StrictTargets ==
  /\ \A i \in DOMAIN frame_numbers : frame_numbers[i] >= 0
  /\ \A i \in 2..Len(frame_numbers) : frame_numbers[i] > frame_numbers[i - 1]

\* The targets are non-negative and never decrease.
NonDecreasingTargets ==
  /\ \A i \in DOMAIN frame_numbers : frame_numbers[i] >= 0
  /\ \A i \in 2..Len(frame_numbers) : frame_numbers[i] >= frame_numbers[i - 1]

\* The stream has more frames than the largest target.
LongerThanTargets ==
  \A i \in DOMAIN frame_numbers : Len(pts) > frame_numbers[i]

\* C3 as stated: average-duration mode, no seek, a fresh stream with strictly
\* increasing PTS from 0 and more frames than the largest target, strictly
\* increasing targets: every packed slot holds the frame whose 0-based number
\* is its target (frame id target + 1), and the call ends with all n slots
\* packed that way.
C3_SlotHoldsTargetFrame ==
  (op = "frame_nums" /\ num_requested_frames >= 1 /\ use_frame /\ ~should_seek
     /\ nfaults = 0 /\ StrictFromZero /\ StrictTargets /\ LongerThanTargets) =>
    /\ \A i \in 1..Len(packed) : packed[i] = frame_numbers[i] + 1
    /\ pc = "done" =>
         /\ Len(packed) = num_requested_frames
         /\ \A i \in 1..num_requested_frames : SlotHolds(i - 1, frame_numbers[i] + 1)

\* C4 as stated: average-duration mode, no seek, a non-decreasing target list
\* with a repeated value: no precondition failure, the repeated target's
\* slot holds the frame of the slot before it, and the call ends with all n
\* slots packed.
C4_RepeatedTargetAccepted ==
  (op = "frame_nums" /\ num_requested_frames >= 2 /\ use_frame /\ ~should_seek
     /\ nfaults = 0 /\ StrictFromZero /\ NonDecreasingTargets /\ ~StrictTargets
     /\ LongerThanTargets) =>
    /\ abortLine # 650
    /\ \A i \in 2..Len(packed) :
         frame_numbers[i] = frame_numbers[i - 1] => packed[i] = packed[i - 1]

\* C5: with should_seek, in both index models, a first decoded PTS at or
\* before the seek timestamp gives a reconstructed index <= frame_numbers[0];
\* the assertion of line 623 fails only after a seek that landed behind the
\* timestamp.
C5_SeekMonotonic ==
  /\ (pc = "fn_recon" /\ PtsOf(frame) <= seekTs) =>
       current_frame_index <= frame_numbers[1]
  /\ abortLine = 623 => PtsOf(frame) > seekTs

C5_Witness ==
  /\ pc = "fn_recon" /\ ~use_frame /\ should_seek
  /\ time_base = <<2, 5>>
  /\ frame_numbers[1] >= 1
  /\ PtsOf(frame) <= seekTs
  /\ PtsOf(frame) > frame_numbers[1]
  /\ current_frame_index = frame_numbers[1]

\* C6: in average-duration mode a scanned frame never decreases
\* current_frame_index; the index grows by exactly one, and prev_pts becomes
\* the frame's PTS, when that PTS is strictly greater than prev_pts; a frame
\* whose PTS is <= prev_pts leaves the index and prev_pts as they were.
C6_IndexMonotonic ==
  [][(pc = "fn_scan" /\ use_frame) =>
       /\ current_frame_index' >= current_frame_index
       /\ (calls' = calls + 1 /\ lastStatus' = VID_DECODE_SUCCESS) =>
            IF pts[frame'] > prev_pts
            THEN /\ current_frame_index' = current_frame_index + 1
                 /\ prev_pts' = pts[frame']
            ELSE UNCHANGED <<current_frame_index, prev_pts>>
       /\ (calls' = calls \/ lastStatus' # VID_DECODE_SUCCESS) =>
            UNCHANGED <<current_frame_index, prev_pts>>]_vars

C6_Witness ==
  /\ pc = "fn_scan" /\ use_frame /\ ~should_seek
  /\ frame = 3
  /\ pts[3] = pts[2]
  /\ prev_pts = pts[2]
  /\ current_frame_index = 2

\* A stream of nb_frames uniformly spaced frames, decoded without a fault
\* after a seek that landed on the first frame or at or before the planned
\* timestamp.
UniformWindowRun ==
  /\ nb_frames = Len(pts)
  /\ nfaults = 0
  /\ landed \in 1..Len(pts)
  /\ landed = 1 \/ pts[landed] <= seekTs

\* C7: with should_random_seek and nb_frames > num_requested_frames the
\* planner returns the no-seek sentinel or seeks to a frame index in
\* [0, nb_frames - num_requested_frames - 1]; on a uniformly spaced stream
\* the frame at the timestamp is skipped and the num_requested_frames frames
\* after it are all there: no end of stream, no padding.
C7_RandomSeekBounds ==
  (op = "loadvid" /\ should_random_seek /\ nb_frames > num_requested_frames
     /\ pc # "plan") =>
    /\ timestamp = AV_NOPTS_VALUE \/ seeks = 1
    /\ seeks = 1 =>
         /\ planIndex >= 0
         /\ planIndex <= nb_frames - num_requested_frames - 1
    /\ (seeks = 1 /\ UniformWindowRun) =>
         /\ pc # "skip_failed"
         /\ pads = 0
         /\ \A i \in 1..Len(packed) : packed[i] <= planIndex + 1 + i
         /\ pc = "done" => Len(packed) = num_requested_frames

C7_Witness ==
  /\ op = "loadvid" /\ should_random_seek /\ pc = "done"
  /\ seeks = 1 /\ UniformWindowRun
  /\ num_requested_frames >= 2
  /\ planIndex >= 1
  /\ planIndex = nb_frames - num_requested_frames - 1
  /\ Len(packed) = num_requested_frames
  /\ packed[num_requested_frames] = Len(pts)

\* C8: a call of decode_video_to_out_buffer with num_requested_frames = 0, or
\* of decode_video_from_frame_nums with num_requested_frames <= 0, writes no
\* byte of the output buffer, makes no decode call and no seek, and returns
\* normally.
C8_EmptyRequestNoOp ==
  ((op = "to_out" /\ num_requested_frames = 0)
     \/ (op = "frame_nums" /\ num_requested_frames <= 0)) =>
    /\ calls = 0 /\ lastStatus = "none" /\ rd = 0 /\ dbuf = <<>>
    /\ seeks = 0
    /\ packed = <<>> /\ pads = 0 /\ BytesWritten = 0 /\ ub = {}
    /\ pc \in {"to_out_entry", "to_out_for", "fn_entry", "free", "done"}

C8_Witness ==
  /\ pc = "done" /\ op = "frame_nums" /\ should_seek
  /\ num_requested_frames = 0
  /\ Len(pts) >= 1
  /\ calls = 0 /\ seeks = 0

\* C9: decode_video_to_out_buffer makes one decode call per iteration, slot i
\* holds the i-th frame the decoder delivered, at most n frames are consumed,
\* and when the stream ends after k < n frames the padding is invoked exactly
\* once, with k frames written, and no decode call follows the end of stream.
C9_ToOutSequence ==
  (op \in {"to_out", "loadvid"} /\ pc \in {"to_out_for", "pad", "free", "done"}) =>
    /\ packed = delivered
    /\ frame_number = Len(packed)
    /\ Len(packed) <= Max(num_requested_frames, 0)
    /\ \A i \in 1..Len(delivered) : SlotHolds(i - 1, delivered[i])
    /\ pads <= 1
    /\ calls = Len(delivered) + pads
    /\ pads = 1 =>
         /\ lastStatus = VID_DECODE_EOF
         /\ pc \in {"pad", "free", "done"}
         /\ Len(packed) < num_requested_frames
    /\ (pc \in {"pad", "free", "done"} /\ Len(packed) < num_requested_frames) =>
         pads = 1

C9_Witness ==
  /\ op = "to_out" /\ pc = "done"
  /\ num_requested_frames = 3
  /\ delay = 1 /\ height = 2
  /\ pads = 1
  /\ delivered = <<1, 2>>
  /\ calls = 3

\* C10 as stated: receive_frame returns VID_DECODE_EOF only when the decoder
\* holds no more frames.
C10_EofOnlyWhenDrained ==
  (op = "recv" /\ lastStatus = VID_DECODE_EOF) => dbuf = <<>>

\* The decoder operations of receive_frame that can fail: avcodec_receive_frame
\* and avcodec_send_packet, in the loop and in the flush pass.
DecoderFaults == {"recv1", "send", "recv2", "fsend", "frecv"}

\* C11 as stated: a receive_frame call in which a decoder operation fails
\* returns VID_DECODE_FFMPEG_ERR, never VID_DECODE_EOF or success, so no
\* sampling entry point pads because of a decoder error.
C11_DecodeErrorsPropagate ==
  \A fault \in DecoderFaults :
    ReceiveFrame(fault).hit => ReceiveFrame(fault).status = VID_DECODE_FFMPEG_ERR

\* C12 as stated: for a non-decreasing list of non-negative targets, when the
\* target about to be processed exceeds nb_frames,
\* decode_video_from_frame_nums makes no decode call for it, calls
\* loop_to_buffer_end with the frames written so far, makes no decode call
\* afterwards and goes on to return normally.
C12_TruncationShortcut ==
  [][/\ (pc = "fn_for" /\ out_frame_index < num_requested_frames
           /\ NonDecreasingTargets
           /\ frame_numbers[out_frame_index + 1] > nb_frames) =>
          /\ calls' = calls
          /\ UNCHANGED <<rd, dbuf, draining, frame, packed, dest>>
          /\ pads' = pads + 1
          /\ frame_number' = Len(packed)
          /\ pc' = IF Len(packed) = 0 THEN "free" ELSE "pad"
     /\ (op = "frame_nums" /\ pads = 1) =>
          /\ calls' = calls
          /\ pads' = pads
          /\ pc' \in {"pad", "free", "done"}]_vars

\* C13: when the stream runs out before any frame was packed (end of stream
\* on the first decode after a seek, while scanning for the first target, on
\* the first call of decode_video_to_out_buffer, or a first target beyond
\* nb_frames), the call goes to its terminal state with no byte of the
\* output buffer written, and makes no decode call from there on.
C13_ZeroFramesAvailable ==
  [][/\ (op \in {"to_out", "loadvid", "frame_nums"} /\ packed = <<>>
           /\ pc \in {"to_out_for", "fn_first", "fn_scan"}
           /\ calls' = calls + 1 /\ lastStatus' = VID_DECODE_EOF) =>
          /\ pc' = "free"
          /\ BytesWritten' = 0
          /\ UNCHANGED <<dest, packed>>
     /\ (pc = "fn_for" /\ packed = <<>> /\ num_requested_frames >= 1
           /\ out_frame_index = 0
           /\ frame_numbers[1] >= 0 /\ frame_numbers[1] > nb_frames) =>
          /\ pc' = "free"
          /\ calls' = calls
          /\ BytesWritten' = 0
          /\ UNCHANGED <<dest, packed>>
     /\ pc \in {"free", "done"} =>
          /\ pc' = "done"
          /\ calls' = calls
          /\ UNCHANGED <<dest, wcount, packed, rd, dbuf>>]_vars

C13_Witness ==
  /\ op = "frame_nums" /\ ~should_seek /\ pc = "done"
  /\ num_requested_frames >= 2
  /\ Len(pts) >= 1
  /\ packed = <<>>
  /\ pads = 1
  /\ lastStatus = VID_DECODE_EOF
  /\ BytesWritten = 0

\* C14 as stated: seek_memory with SEEK_SET leaves the cursor at offset, with
\* SEEK_CUR at cursor + offset, with SEEK_END at total_size + offset, and
\* returns the new cursor; AVSEEK_SIZE returns total_size and leaves the
\* cursor where it was.
C14_SeekMemoryConventions ==
  memcall.fn = "seek_memory" =>
    LET total == input_buf.total_size_bytes
        cur == input_buf.offset_bytes
    IN CASE memcall.whence = "SEEK_SET" ->
              cur = memcall.arg /\ memcall.ret = cur
         [] memcall.whence = "SEEK_CUR" ->
              cur = memcall.before + memcall.arg /\ memcall.ret = cur
         [] memcall.whence = "SEEK_END" ->
              cur = total + memcall.arg /\ memcall.ret = cur
         [] memcall.whence = "AVSEEK_SIZE" ->
              cur = memcall.before /\ memcall.ret = total
         [] OTHER -> cur = memcall.before

\* C15: with should_random_seek and nb_frames - num_requested_frames <= 0 the
\* planner returns the no-seek sentinel without drawing, seeks nowhere and
\* leaves *seek_distance_out unwritten; so it does when nb_frames exceeds
\* num_requested_frames and the draw is 0.
C15_NoWindowNoSeek ==
  (op = "loadvid" /\ should_random_seek /\ pc # "plan") =>
    /\ nb_frames - num_requested_frames <= 0 =>
         /\ timestamp = AV_NOPTS_VALUE
         /\ drawn = 0 - 1
         /\ seeks = 0 /\ landed = 0
         /\ seek_distance = <<>>
    /\ drawn = 0 =>
         /\ nb_frames > num_requested_frames
         /\ timestamp = AV_NOPTS_VALUE
         /\ seeks = 0 /\ landed = 0
         /\ seek_distance = <<>>
    /\ seeks = 0 => delivered = packed

C15_Witness ==
  /\ op = "loadvid" /\ should_random_seek /\ pc = "done"
  /\ nb_frames = num_requested_frames
  /\ num_requested_frames >= 2
  /\ Len(pts) = nb_frames
  /\ timestamp = AV_NOPTS_VALUE
  /\ seeks = 0
  /\ packed = <<1, 2>>

\* C16: for a strictly increasing list of non-negative targets, in both index
\* models, with or without seek, on streams with and without a repeated
\* PTS, the assertion of lines 650-651 never fails: the running index never
\* exceeds the next target.
C16_TargetAssertionHolds ==
  (op = "frame_nums" /\ StrictTargets) =>
    /\ abortLine # 650
    /\ (pc = "fn_for" /\ out_frame_index < num_requested_frames) =>
         /\ frame_numbers[out_frame_index + 1] >= current_frame_index
         /\ frame_numbers[out_frame_index + 1] >= 0

C16_Witness ==
  /\ op = "frame_nums" /\ use_frame /\ pc = "fn_scan"
  /\ StrictTargets
  /\ out_frame_index = 2
  /\ Len(packed) = 2
  /\ frame_numbers[3] = current_frame_index
  /\ Len(pts) >= 3 /\ pts[3] = pts[2]

\* The PTS of the stream strictly increase.
StrictPts == \A i \in 2..Len(pts) : pts[i] > pts[i - 1]

\* The index of frame f in the index model of the call, without the clamp.
IndexOfFrame(f) ==
  IF use_frame THEN pts[f] \div AvgFrameDuration ELSE pts[f] \div TimeUnit

\* A call with should_seek on a stream of strictly increasing PTS, without a
\* library failure.
SeekRun ==
  /\ op = "frame_nums" /\ should_seek /\ num_requested_frames >= 1
  /\ StrictPts /\ nfaults = 0

\* One frame is decoded after the seek; it is packed into slot 0, and the
\* index moved to frame_numbers[0] + 1, exactly when its reconstructed index
\* equals frame_numbers[0].
OneFrameReconciled ==
  /\ pc = "fn_recon" => calls = 1 /\ delivered = <<landed>> /\ packed = <<>>
  /\ (pc = "fn_for" /\ calls = 1) =>
       \/ /\ packed = <<landed>> /\ out_frame_index = 1
          /\ current_frame_index = frame_numbers[1] + 1
          /\ IF use_frame THEN IndexOfFrame(landed) >= frame_numbers[1]
             ELSE IndexOfFrame(landed) = frame_numbers[1]
       \/ /\ packed = <<>> /\ out_frame_index = 0
          /\ current_frame_index <= frame_numbers[1]
          /\ IndexOfFrame(landed) < frame_numbers[1]
  /\ Len(packed) >= 1 => SlotHolds(0, packed[1])

C18_RawStopsPastTarget ==
  (op = "frame_nums" /\ ~use_frame /\ nfaults = 0 /\ NonDecreasingTargets) =>
    /\ abortLine # 650
    /\ \A i \in 1..Len(packed) : pts[packed[i]] > frame_numbers[i] * TimeUnit
    /\ \A i \in 2..Len(packed) :
         frame_numbers[i] = frame_numbers[i - 1] => packed[i] = packed[i - 1]

\* The buffer decode_video_to_out_buffer leaves for num_requested_frames on a
\* stream of Len(pts) frames: slot i holds frame i while frames last, then
\* the frames packed so far again and again.
SequentialBuffer ==
  LET k == Min(num_requested_frames, Len(pts))
  IN [b \in 1..Len(dest) |->
        IF k = 0 THEN Unwritten
        ELSE LET slot == (b - 1) \div BytesPerFrame
                 off == (b - 1) % BytesPerFrame
             IN <<(slot % k) + 1, off \div BytesPerRow, off % BytesPerRow>>]

\* The targets are 0, 1, ..., num_requested_frames - 1.
TargetsFromZero ==
  \A i \in 1..Len(frame_numbers) : frame_numbers[i] = i - 1

\* C19 as stated: on a stream whose PTS start at 0 and strictly increase, for
\* n >= 1, decode_video_to_out_buffer(n) and decode_video_from_frame_nums with
\* targets 0..n-1, no seek, average-duration mode leave the same output
\* buffer: each leaves the buffer of the sequential sampler.
C19_SequentialIsDegenerate ==
  (pc = "done" /\ num_requested_frames >= 1 /\ StrictFromZero /\ nfaults = 0) =>
    /\ op = "to_out" => dest = SequentialBuffer
    /\ (op = "frame_nums" /\ use_frame /\ ~should_seek /\ TargetsFromZero) =>
         dest = SequentialBuffer

\* C20: with a non-zero draw t, 1 <= t <= nb_frames - num_requested_frames,
\* seek_to_closest_keypoint makes exactly one av_seek_frame call, backward,
\* with timestamp floor((t - 1) * duration / nb_frames) + start_time (0 for
\* an unknown start time), returns that timestamp and makes no decode call.
C20_PlannerSeek ==
  (op = "loadvid" /\ should_random_seek /\ drawn >= 1 /\ pc # "plan") =>
    /\ drawn <= nb_frames - num_requested_frames
    /\ seeks = 1
    /\ seekFlag = "AVSEEK_FLAG_BACKWARD"
    /\ seekTs = (((drawn - 1) * duration) \div nb_frames)
                  + (IF start_time = AV_NOPTS_VALUE THEN 0 ELSE start_time)
    /\ timestamp = seekTs
    /\ (pc = "skip" \/ abortLine = 502) =>
         /\ calls = 0 /\ lastStatus = "none" /\ delivered = <<>>
         /\ dbuf = <<>> /\ frame = 0

C20_Witness ==
  /\ op = "loadvid" /\ should_random_seek /\ pc = "skip"
  /\ drawn = 3
  /\ duration = 2 * nb_frames + 1
  /\ start_time = 1
  /\ timestamp = 5
  /\ seeks = 1 /\ calls = 0

\* Every frame skip_past_timestamp consumed before the current one has a PTS
\* below the timestamp.
EarlierBelowTimestamp(k) ==
  \A i \in 1..k : pts[delivered[i]] < timestamp

\* C21: with the no-seek sentinel skip_past_timestamp consumes no frame and
\* returns success; otherwise it consumes at least one frame, on success the
\* current frame has PTS >= timestamp and every frame consumed before it has
\* PTS < timestamp, and if the stream ends or decoding fails first it returns
\* that status, not success.
C21_SkipPastTimestamp ==
  op = "loadvid" =>
    /\ (pc = "to_out_entry" /\ timestamp = AV_NOPTS_VALUE) =>
         /\ calls = 0 /\ delivered = <<>> /\ lastStatus = "none"
         /\ rd = 0 /\ frame = 0
    /\ (pc = "to_out_entry" /\ timestamp # AV_NOPTS_VALUE) =>
         /\ Len(delivered) >= 1
         /\ calls = Len(delivered)
         /\ lastStatus = VID_DECODE_SUCCESS
         /\ frame = delivered[Len(delivered)]
         /\ pts[frame] >= timestamp
         /\ EarlierBelowTimestamp(Len(delivered) - 1)
    /\ pc = "skip_loop" =>
         /\ timestamp # AV_NOPTS_VALUE
         /\ calls = Len(delivered)
         /\ EarlierBelowTimestamp(Len(delivered))
    /\ pc = "skip_failed" =>
         /\ timestamp # AV_NOPTS_VALUE
         /\ lastStatus \in {VID_DECODE_EOF, VID_DECODE_FFMPEG_ERR}
         /\ calls = Len(delivered) + 1
         /\ EarlierBelowTimestamp(Len(delivered))

C21_Witness ==
  /\ op = "loadvid" /\ pc = "to_out_entry"
  /\ timestamp # AV_NOPTS_VALUE
  /\ Len(delivered) = 2
  /\ pts[delivered[2]] = timestamp
  /\ pts[delivered[1]] < timestamp

\* C22 as stated: with should_random_seek false the planner makes no seek and
\* the skip_past_timestamp that follows consumes no frame and succeeds, so
\* sampling starts at the first frame of the stream.
C22_NoRandomSeekIsNoOp ==
  (op = "loadvid" /\ ~should_random_seek) =>
    /\ seeks = 0 /\ drawn = 0 - 1
    /\ pc # "skip_failed"
    /\ pc = "to_out_entry" =>
         /\ calls = 0 /\ delivered = <<>>
         /\ rd = 0 /\ frame = 0
    /\ (pc = "done" /\ Len(packed) >= 1) => packed[1] = 1

\* The sampling call has returned.
Returned == pc = "done"

\* The call is between its allocations and its exit label.
InCall ==
  pc \in {"to_out_for", "pad", "free", "fn_seek", "fn_first", "fn_recon",
          "fn_for", "fn_scan", "fn_pack", "abort"}

\* C24: in both sampling entry points the RGB frame and the scaling context
\* are each released exactly once on every path by which the call returns,
\* never before they were acquired, and neither is acquired when
\* decode_video_from_frame_nums returns early for num_requested_frames <= 0.
C24_ResourcesReleasedOnce ==
  op \in {"to_out", "loadvid", "frame_nums"} =>
    \A r \in {sws_context, frame_rgb} :
      /\ r.released <= r.acquired /\ r.acquired <= 1
      /\ Returned =>
           /\ r.released = r.acquired
           /\ r.acquired = 0 <=> (op = "frame_nums" /\ num_requested_frames <= 0)
      /\ (InCall /\ pc # "abort") => (r.acquired = 1 /\ r.released = 0)

C24_Witness ==
  /\ op = "frame_nums" /\ Returned /\ should_seek
  /\ lastStatus = VID_DECODE_EOF /\ calls = 1 /\ packed = <<>>
  /\ sws_context.released = 1 /\ frame_rgb.released = 1

\* The size of the output buffer the caller passes (3 * width * height
\* bytes per requested frame).
DestSize == 3 * width * height * Max(num_requested_frames, 0)

\* C25: at every step of either sampling entry point, aborting calls
\* included, copied_bytes is the number of frames packed so far times
\* bytes_per_frame, no more frames are packed than were requested (none for
\* a negative request), no packing or padding write reaches offset
\* 3 * width * height * num_requested_frames, and no padding copy reads
\* from the range it writes.
C25_WriteBounds ==
  op \in {"to_out", "loadvid", "frame_nums"} =>
    /\ copied_bytes = Len(packed) * (3 * width * height)
    /\ Len(packed) <= Max(num_requested_frames, 0)
    /\ copied_bytes <= DestSize
    /\ "oob" \notin ub
    /\ "overlap" \notin ub
    /\ \A i \in DOMAIN wcount : wcount[i] <= 1
    /\ pc = "pad" =>
         /\ pad_copied_bytes >= copied_bytes
         /\ pad_copied_bytes <= DestSize
         /\ bytes_to_copy <= copied_bytes

C25_Witness ==
  /\ op = "frame_nums" /\ pc = "done" /\ pads = 1
  /\ Len(packed) = 2 /\ num_requested_frames = 3
  /\ copied_bytes = 2 * (3 * width * height)
  /\ \A i \in DOMAIN wcount : wcount[i] = 1
  /\ ub = {}

\* C26 as stated: after any sequence of read_memory and seek_memory calls on
\* a buffer of size S the cursor is within 0..S, and every read_memory call
\* returns a count c with 0 <= c <= min(max_len, S - cursor), advances the
\* cursor by c and reads only inside [0, S).
C26_CursorSafety ==
  op = "mem" =>
    LET S == input_buf.total_size_bytes
    IN /\ input_buf.offset_bytes >= 0
       /\ input_buf.offset_bytes <= S
       /\ pc # "mem_crash"
       /\ memcall.fn = "read_memory" =>
            /\ memcall.ret >= 0
            /\ memcall.ret <= Min(memcall.arg, S - memcall.before)
            /\ input_buf.offset_bytes = memcall.before + memcall.ret
            /\ memcall.before >= 0
            /\ memcall.before + memcall.ret <= S

\* The calls whose termination is checked: streams of at most MaxLiveFrames
\* frames that start at PTS 0, at most MaxLiveReq requested frames.
LiveInit ==
  /\ Init
  /\ Len(pts) <= MaxLiveFrames
  /\ num_requested_frames <= MaxLiveReq
  /\ pts # <<>> => pts[1] = 0

\* The program is one sequential thread: whenever a step is possible, it
\* takes one.
LiveSpec == LiveInit /\ [][Next]_vars /\ WF_vars(Next)

\* The call, or the run of receive_frame calls, has ended: completed,
\* stopped at the end of the stream, or stopped on a decode error or a
\* failed assertion.
Ended ==
  CASE op \in {"to_out", "loadvid", "frame_nums"} ->
         pc \in {"done", "abort", "skip_failed"}
    [] op = "recv" -> lastStatus \in {VID_DECODE_EOF, VID_DECODE_FFMPEG_ERR}
    [] OTHER -> TRUE

\* C23: on a finite stream and a finite target list every call of
\* receive_frame, skip_past_timestamp, loop_to_buffer_end,
\* decode_video_to_out_buffer and decode_video_from_frame_nums eventually
\* ends, and every pass of the padding loop lowers remaining_frames.
C23_Termination ==
  /\ <>Ended
  /\ [][(pc = "pad" /\ pc' = "pad") => remaining_frames' < remaining_frames]_vars

C23_Witness ==
  /\ op = "frame_nums" /\ pc = "done" /\ pads = 1
  /\ \E i \in 2..Len(pts) : pts[i] = pts[i - 1]
  /\ Len(packed) < num_requested_frames
  /\ remaining_frames <= 0

====
